---- MODULE Spec2Model ----
(***************************************************************************)
(* Person API (src/main.py, src/database.py): the FastAPI handlers over    *)
(* the "persons" table.  Each request is one action: body validation by    *)
(* the pydantic models, the handler, and the store calls it makes on its   *)
(* own session, up to the response.                                        *)
(***************************************************************************)
EXTENDS Integers, Sequences, FiniteSets, TLC

\* Number of tokens uuid4 hands out in a run (bounds the number of creates).
MaxCreates == 2

(***************************************************************************)
(* JSON / Python values, tagged by type.                                   *)
(***************************************************************************)
JNull == [t |-> "null", s |-> "", n |-> 0]
JStr(x) == [t |-> "str", s |-> x, n |-> 0]
JInt(k) == [t |-> "int", s |-> "", n |-> k]
\* A key that the request body does not carry.
Unset == [t |-> "unset", s |-> "", n |-> 0]

\* The strings of the input sets that are decimal integers, with their value.
NumericStr == ("30" :> 30) @@ ("31" :> 31)

(***************************************************************************)
(* pydantic field validation (lax mode, the BaseModel default).            *)
(***************************************************************************)
\* Variant: the string fields are declared with min_length=1.
StrOkNonEmpty(v) == v.t = "str" /\ v.s # ""

\* `str`: only a string is accepted.
StrOk(v) == v.t = "str"
StrVal(v) == v

\* `int`: an integer, or a string that parses as one, which is converted.
IntOk(v) == v.t = "int" \/ (v.t = "str" /\ v.s \in DOMAIN NumericStr)
IntVal(v) == IF v.t = "str" THEN JInt(NumericStr[v.s]) ELSE v

\* Optional[...] = None: null is accepted, an unset key takes the default None.
OptStrOk(v) == v.t \in {"unset", "null"} \/ StrOk(v)
OptStrVal(v) == IF v.t \in {"unset", "null"} THEN JNull ELSE StrVal(v)
OptIntOk(v) == v.t \in {"unset", "null"} \/ IntOk(v)
OptIntVal(v) == IF v.t \in {"unset", "null"} THEN JNull ELSE IntVal(v)

\* Variant: email is not checked (declared optional by mistake).
PersonOkNoEmail(body) ==
    /\ OptStrOk(body.id)
    /\ StrOk(body.name)
    /\ IntOk(body.age)

\* class Person: id optional, name, age and email required.
PersonOk(body) ==
    /\ OptStrOk(body.id)
    /\ StrOk(body.name)
    /\ IntOk(body.age)
    /\ StrOk(body.email)

Person(body) ==
    [id |-> OptStrVal(body.id), name |-> StrVal(body.name),
     age |-> IntVal(body.age), email |-> StrVal(body.email)]

\* class PersonUpdate: three optional fields; other keys of the body are ignored.
UpdateFields == {"name", "age", "email"}

PersonUpdateOk(body) ==
    /\ OptStrOk(body.name)
    /\ OptIntOk(body.age)
    /\ OptStrOk(body.email)

PersonUpdate(body) ==
    [name |-> OptStrVal(body.name), age |-> OptIntVal(body.age),
     email |-> OptStrVal(body.email)]

\* model_fields_set: the fields the body carried, null included.
FieldsSet(body) == {k \in UpdateFields : body[k].t # "unset"}

(***************************************************************************)
(* State.                                                                  *)
(***************************************************************************)
VARIABLES
    persons,     \* the persons table: rows [id, name, age, email], in insertion order
    uuidCount,   \* how many tokens uuid4 has returned
    request,     \* the request handled last: [op, person_id, body]
    response,    \* its response: [status, detail, entity, list]
    untouched,   \* entities returned by a create, not updated or deleted since
    deleted,     \* ids whose delete returned 204
    sessions     \* the requests in flight when requests overlap, one per client

vars == <<persons, uuidCount, request, response, untouched, deleted, sessions>>

(***************************************************************************)
(* Responses.                                                              *)
(***************************************************************************)
Columns == {"id", "name", "age", "email"}

\* The entity slot of a response that carries no person.
NoEntity == [id |-> JNull, name |-> JNull, age |-> JNull, email |-> JNull]

\* The health slot of a response that is no health report.
NoHealth == [status |-> "", database |-> "", error |-> "", service |-> "", version |-> ""]

Resp(status, detail, entity, list) ==
    [status |-> status, detail |-> detail, entity |-> entity, list |-> list,
     health |-> NoHealth]

Created(p) == Resp(201, "", p, <<>>)
Ok(p) == Resp(200, "", p, <<>>)
OkList(ps) == Resp(200, "", NoEntity, ps)
NoContent == Resp(204, "", NoEntity, <<>>)
NotFound == Resp(404, "Person not found", NoEntity, <<>>)
\* Request validation failed: FastAPI answers before the handler runs.
Unprocessable == Resp(422, "validation error", NoEntity, <<>>)
\* An exception left the handler (IntegrityError from the commit).
ServerError == Resp(500, "Internal Server Error", NoEntity, <<>>)

\* health_status, without its timestamp; error is str(e), "" when nothing failed.
HealthStatus(status, database, error) ==
    [status |-> status, database |-> database, error |-> error,
     service |-> "Person API", version |-> "1.0.0"]

\* return health_status
Healthy ==
    [Resp(200, "", NoEntity, <<>>) EXCEPT
        !.health = HealthStatus("healthy", "connected", "")]

\* Variant: the unhealthy status is returned, not raised.
UnavailableReturned(e) ==
    [Resp(200, "", NoEntity, <<>>) EXCEPT
        !.health = HealthStatus("unhealthy", "disconnected", e)]

\* raise HTTPException(status_code=503, detail=health_status)
Unavailable(e) ==
    [Resp(503, "unhealthy", NoEntity, <<>>) EXCEPT
        !.health = HealthStatus("unhealthy", "disconnected", e)]

Req(op, person_id, body) == [op |-> op, person_id |-> person_id, body |-> body]

NoBody == [id |-> Unset, name |-> Unset, age |-> Unset, email |-> Unset]

(***************************************************************************)
(* The store: table persons of src/database.py and the statements the      *)
(* handlers run against it.                                                *)
(***************************************************************************)
\* str(uuid4()): a token that no earlier call returned.
UuidStr(k) == "u" \o ToString(k)

\* Variant: the id is derived from the number of rows, so it can come back.
Uuid4FromRowCount == UuidStr(Len(persons) + 1)

Uuid4 == UuidStr(uuidCount + 1)
Issued == {UuidStr(k) : k \in 1..uuidCount}

\* Variant: the columns are declared nullable.
NotNullOff(row) == TRUE

\* nullable=False on name, age, email; the primary key is not null either.
NotNullOk(row) == \A c \in Columns : row[c].t # "null"

\* Variant: .first() in place of .all().
SelectFirst == SubSeq(persons, 1, IF Len(persons) = 0 THEN 0 ELSE 1)

\* select(PersonDB); result.scalars().all()
SelectAll == persons

\* select(PersonDB).where(PersonDB.id == person_id)
SelectById(person_id) == SelectSeq(persons, LAMBDA r : r.id = JStr(person_id))

Exists(person_id) == Len(SelectById(person_id)) > 0

\* INSERT at commit: the primary key is unique and no column is null.
InsertOk(row) == NotNullOk(row) /\ \A i \in 1..Len(persons) : persons[i].id # row.id

\* for key, value in update_data.items(): setattr(db_person, key, value)
SetAttrs(db_person, update, fields) ==
    [c \in Columns |-> IF c \in fields THEN update[c] ELSE db_person[c]]

\* Variant: the UPDATE has no WHERE clause and rewrites every row.
UpdateEveryRow(row) ==
    [i \in 1..Len(persons) |-> [row EXCEPT !.id = persons[i].id]]

\* UPDATE ... WHERE id = <primary key> at commit.
UpdateWhere(row) ==
    [i \in 1..Len(persons) |-> IF persons[i].id = row.id THEN row ELSE persons[i]]

\* Variant: the DELETE has no WHERE clause.
DeleteEveryRow(person_id) == <<>>

\* Variant: the DELETE is never committed.
DeleteNothing(person_id) == persons

\* delete(PersonDB).where(PersonDB.id == person_id)
DeleteWhere(person_id) == SelectSeq(persons, LAMBDA r : r.id # JStr(person_id))

(***************************************************************************)
(* Input sets.                                                             *)
(***************************************************************************)
PathIds == {UuidStr(k) : k \in 1..MaxCreates} \cup {"nonexistent-id"}

\* Create bodies that pass validation: the caller may send an id of its own,
\* and the age as a number or as a numeric string.
ValidCreateBodies ==
    [id : {Unset, JStr("custom")},
     name : {JStr("Ann"), JStr("Bob")},
     age : {JInt(30)},
     email : {JStr("a@x.org")}]
    \cup {[id |-> Unset, name |-> JStr("Ann"), age |-> JStr("30"),
           email |-> JStr("a@x.org")]}
    \* an id the caller got from an earlier create
    \cup {[id |-> JStr(x), name |-> JStr("Ann"), age |-> JInt(30),
           email |-> JStr("a@x.org")] : x \in Issued \cap {UuidStr(1)}}

\* Create bodies with one fault: a missing field, a wrong type, a null.
InvalidCreateBodies ==
    LET good == [id |-> Unset, name |-> JStr("Ann"), age |-> JInt(30),
                 email |-> JStr("a@x.org")]
    IN {[good EXCEPT !.email = Unset],
        [good EXCEPT !.age = JStr("thirty")],
        [good EXCEPT !.name = JInt(7)],
        [good EXCEPT !.name = JNull]}

CreateBodies == ValidCreateBodies \cup InvalidCreateBodies

\* Update bodies that pass validation: no field, one field (a new value, a
\* numeric string, an explicit null), all three fields.
ValidUpdateBodies ==
    {NoBody,
     [NoBody EXCEPT !.name = JStr("Bob")],
     [NoBody EXCEPT !.age = JInt(31)],
     [NoBody EXCEPT !.age = JStr("31")],
     [NoBody EXCEPT !.name = JNull],
     [NoBody EXCEPT !.name = JStr("Bob"), !.age = JInt(31), !.email = JStr("b@x.org")]}

\* Update bodies with a wrong-typed field, alone or next to a good one.
InvalidUpdateBodies ==
    {[NoBody EXCEPT !.name = JInt(7)],
     [NoBody EXCEPT !.name = JStr("Bob"), !.age = JStr("thirty")]}

UpdateBodies == ValidUpdateBodies \cup InvalidUpdateBodies

\* What db.execute(select(1)) does: it returns (""), or raises with a message.
SelectOneOutcomes == {"", "connection refused"}

\* The clients whose requests overlap.
Clients == {"a", "b"}

\* A client with no request in flight.
Idle ==
    [pc |-> "idle", op |-> "none", person_id |-> "", body |-> NoBody,
     found |-> <<>>, write |-> "none", row |-> NoEntity,
     response |-> Resp(0, "", NoEntity, <<>>)]

(***************************************************************************)
(* Initial state: an empty table (init_db creates it), no request yet.     *)
(***************************************************************************)
Init ==
    /\ sessions = [c \in Clients |-> Idle]
    /\ persons = <<>>
    /\ uuidCount = 0
    /\ request = Req("none", "", NoBody)
    /\ response = Resp(0, "", NoEntity, <<>>)
    /\ untouched = {}
    /\ deleted = {}

(***************************************************************************)
(* Requests.                                                               *)
(***************************************************************************)
\* GET /health
health_check(e) ==
    /\ request' = Req("health_check", "", NoBody)
    /\ response' = IF e = "" THEN Healthy ELSE Unavailable(e)
    /\ UNCHANGED <<persons, uuidCount, untouched, deleted, sessions>>

\* POST /persons with a body that class Person rejects.
RejectCreate(body) ==
    /\ ~PersonOk(body)
    /\ request' = Req("reject_create", "", body)
    /\ response' = Unprocessable
    /\ UNCHANGED <<persons, uuidCount, untouched, deleted, sessions>>

\* Variant: an id sent by the caller is kept.
PersonIdFromCaller(person) == IF person.id.t = "str" THEN person.id.s ELSE Uuid4

\* person_id = str(uuid4()); person.id = person_id
PersonId(person) == Uuid4

\* PersonDB(id=person_id, name=person.name, age=person.age, email=person.email)
PersonDB(person_id, person) ==
    [id |-> JStr(person_id), name |-> person.name, age |-> person.age,
     email |-> person.email]

\* POST /persons
create_person(body) ==
    /\ PersonOk(body)
    /\ uuidCount < MaxCreates
    /\ LET person == Person(body)
           person_id == PersonId(person)
           db_person == PersonDB(person_id, person)
       IN /\ request' = Req("create_person", "", body)
          /\ uuidCount' = uuidCount + 1
          /\ IF InsertOk(db_person)
             THEN /\ persons' = Append(persons, db_person)
                  /\ response' = Created(db_person)
                  /\ untouched' = untouched \cup {[person EXCEPT !.id = response'.entity.id]}
             ELSE /\ response' = ServerError
                  /\ UNCHANGED <<persons, untouched>>
          /\ UNCHANGED <<deleted, sessions>>

\* GET /persons
get_all_persons ==
    /\ request' = Req("get_all_persons", "", NoBody)
    /\ response' = OkList(SelectAll)
    /\ UNCHANGED <<persons, uuidCount, untouched, deleted, sessions>>

\* GET /persons/{person_id}
get_person(person_id) ==
    /\ request' = Req("get_person", person_id, NoBody)
    /\ LET found == SelectById(person_id)
       IN response' = IF Len(found) = 0 THEN NotFound ELSE Ok(found[1])
    /\ UNCHANGED <<persons, uuidCount, untouched, deleted, sessions>>

\* PUT /persons/{person_id} with a body that class PersonUpdate rejects.
RejectUpdate(person_id, body) ==
    /\ ~PersonUpdateOk(body)
    /\ request' = Req("reject_update", person_id, body)
    /\ response' = Unprocessable
    /\ UNCHANGED <<persons, uuidCount, untouched, deleted, sessions>>

\* PUT /persons/{person_id}
update_person(person_id, body) ==
    /\ PersonUpdateOk(body)
    /\ request' = Req("update_person", person_id, body)
    /\ LET found == SelectById(person_id)
       IN IF Len(found) = 0
          THEN /\ response' = NotFound
               /\ UNCHANGED <<persons, untouched>>
          ELSE LET db_person == SetAttrs(found[1], PersonUpdate(body), FieldsSet(body))
                   table == UpdateWhere(db_person)
                   refreshed == SelectSeq(table, LAMBDA r : r.id = db_person.id)
               IN IF NotNullOk(db_person)
                  THEN /\ persons' = table
                       /\ response' = Ok(refreshed[1])
                       /\ untouched' = {p \in untouched : p.id # JStr(person_id)}
                  ELSE \* IntegrityError at commit; the session rolls back.
                       /\ response' = ServerError
                       /\ UNCHANGED <<persons, untouched>>
    /\ UNCHANGED <<uuidCount, deleted, sessions>>

\* Variant: the DELETE statement runs without the existence check.
delete_person_unchecked(person_id) ==
    /\ request' = Req("delete_person", person_id, NoBody)
    /\ persons' = DeleteWhere(person_id)
    /\ response' = NoContent
    /\ untouched' = {p \in untouched : p.id # JStr(person_id)}
    /\ deleted' = deleted \cup {person_id}
    /\ UNCHANGED <<uuidCount, sessions>>

\* DELETE /persons/{person_id}
delete_person(person_id) ==
    /\ request' = Req("delete_person", person_id, NoBody)
    /\ LET found == SelectById(person_id)
       IN IF Len(found) = 0
          THEN /\ response' = NotFound
               /\ UNCHANGED <<persons, untouched, deleted>>
          ELSE /\ persons' = DeleteWhere(person_id)
               /\ response' = NoContent
               /\ untouched' = {p \in untouched : p.id # JStr(person_id)}
               /\ deleted' = deleted \cup {person_id}
    /\ UNCHANGED <<uuidCount, sessions>>

Next ==
    \/ \E e \in SelectOneOutcomes : health_check(e)
    \/ \E body \in CreateBodies : RejectCreate(body)
    \/ \E body \in CreateBodies : create_person(body)
    \/ get_all_persons
    \/ \E person_id \in PathIds : get_person(person_id)
    \/ \E person_id \in PathIds, body \in UpdateBodies : RejectUpdate(person_id, body)
    \/ \E person_id \in PathIds, body \in UpdateBodies : update_person(person_id, body)
    \/ \E person_id \in PathIds : delete_person(person_id)

Spec == Init /\ [][Next]_vars

(***************************************************************************)
(* The same requests over names that include the empty string.             *)
(***************************************************************************)
NameCreateBodies ==
    {[id |-> Unset, name |-> n, age |-> JInt(30), email |-> JStr("a@x.org")] :
        n \in {JStr(""), JStr("Ann"), JNull}}

NameUpdateBodies ==
    {NoBody} \cup {[NoBody EXCEPT !.name = n] : n \in {JStr(""), JStr("Bob"), JInt(7)}}

NextNames ==
    \/ \E body \in NameCreateBodies : RejectCreate(body)
    \/ \E body \in NameCreateBodies : create_person(body)
    \/ get_all_persons
    \/ \E person_id \in PathIds : get_person(person_id)
    \/ \E person_id \in PathIds, body \in NameUpdateBodies : RejectUpdate(person_id, body)
    \/ \E person_id \in PathIds, body \in NameUpdateBodies : update_person(person_id, body)
    \/ \E person_id \in PathIds : delete_person(person_id)

SpecNames == Init /\ [][NextNames]_vars

(***************************************************************************)
(* Overlapping requests.  Each request runs in a session of its own        *)
(* (get_db), and the handlers of PUT and DELETE await the database four    *)
(* times: the SELECT, the write statement, the COMMIT and, for PUT, the    *)
(* refresh.  Another request may run between any two of them.  A SELECT    *)
(* reads the committed table; a write statement waits while another        *)
(* session holds an uncommitted write.                                     *)
(***************************************************************************)
\* The table after two creates.
TwoPersons ==
    <<PersonDB(UuidStr(1), [name |-> JStr("Ann"), age |-> JInt(30), email |-> JStr("a@x.org")]),
      PersonDB(UuidStr(2), [name |-> JStr("Bob"), age |-> JInt(31), email |-> JStr("b@x.org")])>>

InitConc ==
    /\ persons = TwoPersons
    /\ uuidCount = Len(TwoPersons)
    /\ request = Req("none", "", NoBody)
    /\ response = Resp(0, "", NoEntity, <<>>)
    /\ untouched = {}
    /\ deleted = {}
    /\ sessions = [c \in Clients |-> Idle]

\* The update bodies of the overlapping requests.
ConcUpdateBodies ==
    {NoBody, [NoBody EXCEPT !.name = JStr("Cy")], [NoBody EXCEPT !.age = JInt(32)]}

\* Some session other than c has written and not yet committed.
WriteLocked(c) == \E o \in Clients \ {c} : sessions[o].write # "none"

\* The request reaches its handler.
Receive(c, op, person_id, body) ==
    /\ sessions[c].pc = "idle"
    /\ sessions' = [sessions EXCEPT ![c] =
          [Idle EXCEPT !.pc = "select", !.op = op, !.person_id = person_id,
                       !.body = body]]
    /\ UNCHANGED <<persons, uuidCount, request, response, untouched, deleted>>

\* result = await db.execute(select(PersonDB).where(PersonDB.id == person_id));
\* if not db_person: raise HTTPException(404)
Select(c) ==
    /\ sessions[c].pc = "select"
    /\ LET found == SelectById(sessions[c].person_id)
       IN sessions' = [sessions EXCEPT ![c] =
             IF Len(found) = 0
             THEN [@ EXCEPT !.pc = "done", !.response = NotFound]
             ELSE [@ EXCEPT !.pc = "write", !.found = found]]
    /\ UNCHANGED <<persons, uuidCount, request, response, untouched, deleted>>

\* await db.execute(delete(PersonDB).where(PersonDB.id == person_id)): the
\* handler does not look at the number of rows the statement matched.
DeleteStatement(c) ==
    /\ sessions[c].pc = "write"
    /\ sessions[c].op = "delete_person"
    /\ ~WriteLocked(c)
    /\ sessions' = [sessions EXCEPT ![c] = [@ EXCEPT !.pc = "commit", !.write = "delete"]]
    /\ UNCHANGED <<persons, uuidCount, request, response, untouched, deleted>>

\* setattr on db_person, then the flush that opens db.commit(): an UPDATE by
\* primary key when an attribute changed.  The unit of work expects it to
\* match one row and raises StaleDataError when it matches none; the handler
\* does not catch the exception.
Flush(c) ==
    /\ sessions[c].pc = "write"
    /\ sessions[c].op = "update_person"
    /\ LET db_person == SetAttrs(sessions[c].found[1], PersonUpdate(sessions[c].body),
                                 FieldsSet(sessions[c].body))
       IN IF db_person = sessions[c].found[1]
          THEN sessions' = [sessions EXCEPT ![c] = [@ EXCEPT !.pc = "commit"]]
          ELSE /\ ~WriteLocked(c)
               /\ sessions' = [sessions EXCEPT ![c] =
                     IF Exists(sessions[c].person_id) /\ NotNullOk(db_person)
                     THEN [@ EXCEPT !.pc = "commit", !.write = "update", !.row = db_person]
                     ELSE [@ EXCEPT !.pc = "done", !.response = ServerError]]
    /\ UNCHANGED <<persons, uuidCount, request, response, untouched, deleted>>

\* The COMMIT that ends db.commit(); delete_person then returns None (204).
Commit(c) ==
    /\ sessions[c].pc = "commit"
    /\ persons' =
          CASE sessions[c].write = "delete" -> DeleteWhere(sessions[c].person_id)
            [] sessions[c].write = "update" ->
                  \* the UPDATE sets the columns whose attribute changed
                  LET changed == {k \in Columns : sessions[c].row[k] # sessions[c].found[1][k]}
                  IN UpdateWhere(SetAttrs(SelectById(sessions[c].person_id)[1],
                                          sessions[c].row, changed))
            [] OTHER -> persons
    /\ sessions' = [sessions EXCEPT ![c] =
          IF sessions[c].op = "delete_person"
          THEN [@ EXCEPT !.pc = "done", !.write = "none", !.response = NoContent]
          ELSE [@ EXCEPT !.pc = "refresh", !.write = "none"]]
    /\ UNCHANGED <<uuidCount, request, response, untouched, deleted>>

\* await db.refresh(db_person): a SELECT by primary key, which raises
\* InvalidRequestError when the row is gone; then the handler returns the row.
Refresh(c) ==
    /\ sessions[c].pc = "refresh"
    /\ LET found == SelectById(sessions[c].person_id)
       IN sessions' = [sessions EXCEPT ![c] =
             IF Len(found) = 0
             THEN [@ EXCEPT !.pc = "done", !.response = ServerError]
             ELSE [@ EXCEPT !.pc = "done", !.response = Ok(found[1])]]
    /\ UNCHANGED <<persons, uuidCount, request, response, untouched, deleted>>

NextConc ==
    \/ \E c \in Clients, person_id \in PathIds :
          Receive(c, "delete_person", person_id, NoBody)
    \/ \E c \in Clients, person_id \in PathIds, body \in ConcUpdateBodies :
          Receive(c, "update_person", person_id, body)
    \/ \E c \in Clients : Select(c)
    \/ \E c \in Clients : DeleteStatement(c)
    \/ \E c \in Clients : Flush(c)
    \/ \E c \in Clients : Commit(c)
    \/ \E c \in Clients : Refresh(c)

SpecConc == InitConc /\ [][NextConc]_vars

(***************************************************************************)
(* The requests on single records against a table of three persons.        *)
(***************************************************************************)
\* The table after three creates.
ThreePersons ==
    Append(TwoPersons,
           PersonDB(UuidStr(3), [name |-> JStr("Eve"), age |-> JInt(32), email |-> JStr("e@x.org")]))

InitThree ==
    /\ persons = ThreePersons
    /\ uuidCount = Len(ThreePersons)
    /\ request = Req("none", "", NoBody)
    /\ response = Resp(0, "", NoEntity, <<>>)
    /\ untouched = {ThreePersons[i] : i \in 1..Len(ThreePersons)}
    /\ deleted = {}
    /\ sessions = [c \in Clients |-> Idle]

\* Update bodies: empty, one field, every field next to an id key (which
\* class PersonUpdate does not declare), and a wrong-typed name.
ThreeUpdateBodies ==
    {NoBody,
     [NoBody EXCEPT !.name = JStr("Bob")],
     [id |-> JStr("custom"), name |-> JStr("Dee"), age |-> JInt(33), email |-> JStr("d@x.org")],
     [NoBody EXCEPT !.name = JInt(7)]}

NextThree ==
    \/ get_all_persons
    \/ \E person_id \in PathIds : get_person(person_id)
    \/ \E person_id \in PathIds, body \in ThreeUpdateBodies : RejectUpdate(person_id, body)
    \/ \E person_id \in PathIds, body \in ThreeUpdateBodies : update_person(person_id, body)
    \/ \E person_id \in PathIds : delete_person(person_id)

SpecThree == InitThree /\ [][NextThree]_vars

(***************************************************************************)
(* Properties.                                                             *)
(***************************************************************************)
StoredIds == {persons[i].id.s : i \in 1..Len(persons)}

\* The rows of `table` whose id is person_id, and the first of them.
RowsOf(table, person_id) == SelectSeq(table, LAMBDA r : r.id = JStr(person_id))
RowOf(table, person_id) == RowsOf(table, person_id)[1]

HandlerOps == {"get_person", "update_person", "delete_person"}

\* C1: an update_person on an existing id sets exactly the fields its body
\* carries to the body's values and leaves the other fields as stored; with
\* the body {} it answers 200 with the unchanged entity and the table is
\* unchanged.
C1_PartialUpdateLaw ==
    [][(request'.op = "update_person" /\ Exists(request'.person_id)) =>
          LET old == RowOf(persons, request'.person_id)
              upd == PersonUpdate(request'.body)
              set == FieldsSet(request'.body)
          IN /\ Len(RowsOf(persons', request'.person_id)) = 1
             /\ LET new == RowOf(persons', request'.person_id)
                IN /\ new.id = old.id
                   /\ \A c \in UpdateFields :
                         new[c] = IF c \in set THEN upd[c] ELSE old[c]
             /\ (set = {} => (response' = Ok(old) /\ persons' = persons))]_vars

\* C2: get_person, update_person or delete_person on an id that no create
\* returned, or whose delete succeeded, answers 404 "Person not found" and
\* leaves the table alone; so a second delete of an id answers 404.
C2_IdempotentAbsence ==
    [][(/\ request'.op \in HandlerOps
        /\ (request'.person_id \notin Issued \/ request'.person_id \in deleted))
       => (response' = NotFound /\ persons' = persons)]_vars

\* C2 witness: a delete of an id that an earlier delete removed, answered 404.
C2_Witness ==
    /\ request.op = "delete_person"
    /\ request.person_id \in deleted
    /\ response = NotFound

\* C3: the id a successful create returns is a non-empty string that differs
\* from every id created before, stored or since deleted.
C3_IdUniqueness ==
    [][(request'.op = "create_person" /\ response'.status = 201) =>
          /\ response'.entity.id.t = "str"
          /\ response'.entity.id.s # ""
          /\ response'.entity.id.s \notin (Issued \cup StoredIds \cup deleted)]_vars

\* C3 witness: a create that repeats the name, age and email of a stored
\* record succeeded, and the two records differ in id.
C3_Witness ==
    /\ request.op = "create_person"
    /\ response.status = 201
    /\ \E i, j \in 1..Len(persons) :
          /\ i # j
          /\ persons[i].id # persons[j].id
          /\ [persons[i] EXCEPT !.id = JNull] = [persons[j] EXCEPT !.id = JNull]

\* C4: a get_person of an id returned by a create, with no update or delete
\* of that id since, answers 200 with that id and the created name, age, email.
C4_RoundTrip ==
    request.op = "get_person" =>
        \A p \in untouched : p.id = JStr(request.person_id) => response = Ok(p)

\* C4 witness: such a get, after another record was updated.
C4_Witness ==
    /\ request.op = "get_person"
    /\ \E p \in untouched : p.id = JStr(request.person_id) /\ response = Ok(p)
    /\ \E i \in 1..Len(persons) : persons[i] \notin untouched

\* C5: an id whose delete answered 204 is in no row of the table, a
\* get_person of it answers 404, and no get_all_persons lists it.
C5_DeletedStaysGone ==
    \A x \in deleted :
        /\ ~Exists(x)
        /\ (request.op = "get_person" /\ request.person_id = x => response = NotFound)
        /\ (request.op = "get_all_persons" =>
               \A i \in 1..Len(response.list) : response.list[i].id # JStr(x))

\* C5 witness: a get of a deleted id, answered 404, with a record created
\* after the delete in the table.
C5_Witness ==
    /\ request.op = "get_person"
    /\ request.person_id \in deleted
    /\ response = NotFound
    /\ \E i \in 1..Len(persons) : persons[i].id = JStr(UuidStr(uuidCount))
    /\ UuidStr(1) \in deleted


\* The JSON type each field is declared with.
DeclaredType == [id |-> "str", name |-> "str", age |-> "int", email |-> "str"]
RequiredFields == {"name", "age", "email"}

\* The body carries a string or a number where the other type is declared.
WrongTyped(body, fields) ==
    \E c \in fields : body[c].t \in {"str", "int"} /\ body[c].t # DeclaredType[c]

\* The body carries a value that cannot be converted to the declared type: a
\* number for a string, a string that is no decimal integer for an integer.
Inconvertible(body, fields) ==
    \E c \in fields :
        \/ body[c].t = "int" /\ DeclaredType[c] = "str"
        \/ body[c].t = "str" /\ DeclaredType[c] = "int" /\ body[c].s \notin DOMAIN NumericStr

MissingRequired(body) == \E c \in RequiredFields : body[c].t \in {"unset", "null"}

CreateOps == {"create_person", "reject_create"}
UpdateOps == {"update_person", "reject_update"}

\* C6 as stated: a create body with a missing required field or a wrong-typed
\* field, and an update body with a wrong-typed field, is answered 422 and
\* the table is unchanged.
C6_WrongTypeRejected ==
    [][(\/ /\ request'.op \in CreateOps
           /\ (MissingRequired(request'.body) \/ WrongTyped(request'.body, Columns))
        \/ /\ request'.op \in UpdateOps
           /\ WrongTyped(request'.body, UpdateFields))
       => (response' = Unprocessable /\ persons' = persons)]_vars

\* C6 amended: a create body with a missing required field or a field whose
\* value cannot be converted to the declared type, and an update body with
\* such a field, is answered 422 and the table is unchanged; a numeric
\* string sent as age is not such a value: it is converted and accepted.
C6_InconvertibleRejected ==
    [][/\ ((\/ /\ request'.op \in CreateOps
               /\ (MissingRequired(request'.body) \/ Inconvertible(request'.body, Columns))
            \/ /\ request'.op \in UpdateOps
               /\ Inconvertible(request'.body, UpdateFields))
           => (response' = Unprocessable /\ persons' = persons))
       /\ ((/\ request'.op \in CreateOps
            /\ request'.body.age.t = "str"
            /\ ~MissingRequired(request'.body)
            /\ ~Inconvertible(request'.body, Columns))
           => (/\ response'.status = 201
               /\ response'.entity.age = JInt(NumericStr[request'.body.age.s])))]_vars

\* C6 witness: an update of a stored record whose body has a good name and
\* an age that is no integer was answered 422.
C6_Witness ==
    /\ request.op = "reject_update"
    /\ Exists(request.person_id)
    /\ request.body.name = JStr("Bob")
    /\ request.body.age = JStr("thirty")
    /\ response = Unprocessable

\* C7: every row of the table has a string id, a string name, an integer age
\* and a string email, none of them null, and no two rows have the same id.
C7_StoreInvariant ==
    /\ \A i \in 1..Len(persons) : \A c \in Columns : persons[i][c].t = DeclaredType[c]
    /\ \A i, j \in 1..Len(persons) : persons[i].id = persons[j].id => i = j

\* C7 witness: an update whose body carries an explicit null was handled for
\* a stored record, next to a second stored record.
C7_Witness ==
    /\ request.op = "update_person"
    /\ Exists(request.person_id)
    /\ \E c \in UpdateFields : request.body[c] = JNull
    /\ Len(persons) > 1

\* C8: an update_person of an existing id whose body carries an explicit
\* null answers 200, and every field the body carries, the null one too, is
\* stored as sent.
C8_NullOverwrites ==
    [][(/\ request'.op = "update_person"
        /\ Exists(request'.person_id)
        /\ \E c \in UpdateFields : request'.body[c] = JNull)
       => (/\ response'.status = 200
           /\ Len(RowsOf(persons', request'.person_id)) = 1
           /\ \A c \in FieldsSet(request'.body) :
                 RowOf(persons', request'.person_id)[c] = PersonUpdate(request'.body)[c])]_vars

\* C9: create_person answers 201 with the token uuid4 returned as id, that
\* token is the id of the stored row, and an id sent in the body is neither
\* returned nor given to the new row.
C9_ServerGeneratedId ==
    request.op = "create_person" =>
        /\ response.status = 201
        /\ response.entity.id = JStr(UuidStr(uuidCount))
        /\ persons[Len(persons)] = response.entity
        /\ response.entity.id # request.body.id
        /\ (request.body.id.t = "str" /\ request.body.id.s \notin Issued
               => request.body.id.s \notin StoredIds)

\* C9 witness: a create whose body carried the id of a stored record
\* succeeded.
C9_Witness ==
    /\ request.op = "create_person"
    /\ request.body.id.t = "str"
    /\ request.body.id.s \in StoredIds
    /\ response.status = 201

\* C10: get_all_persons answers 200 with the rows of the table, one entry
\* for each id created and not deleted, and the empty list for an empty table.
C10_ListAll ==
    request.op = "get_all_persons" =>
        /\ response.status = 200
        /\ response.list = persons
        /\ {response.list[i].id.s : i \in 1..Len(response.list)} = Issued \ deleted
        /\ Len(response.list) = Cardinality(Issued \ deleted)

\* C10 witness: a list of one record after another record was deleted.
C10_Witness ==
    /\ request.op = "get_all_persons"
    /\ Len(response.list) = 1
    /\ deleted # {}

\* C11 as stated: no row of the table has the empty string as name.
C11_NonEmptyName ==
    \A i \in 1..Len(persons) : persons[i].name # JStr("")

\* C11 amended: the name of every row is a string, and the empty string is
\* one: a create whose body has the name "" answers 201 and stores it, and
\* an update of a stored record with the name "" answers 200 and stores it.
C11_NameIsAnyString ==
    [][/\ \A i \in 1..Len(persons') : persons'[i].name.t = "str"
       /\ ((request'.op \in CreateOps /\ request'.body.name = JStr(""))
           => (/\ response'.status = 201
               /\ response'.entity.name = JStr("")
               /\ persons' = Append(persons, response'.entity)))
       /\ ((/\ request'.op \in UpdateOps
            /\ request'.body.name = JStr("")
            /\ Exists(request'.person_id))
           => (/\ response'.status = 200
               /\ response'.entity.name = JStr("")
               /\ RowsOf(persons', request'.person_id) = <<response'.entity>>))]_vars

\* C11 witness: a record created with a name was updated to the name "",
\* next to a record created with the name "".
C11_Witness ==
    /\ request.op = "update_person"
    /\ request.body.name = JStr("")
    /\ response.status = 200
    /\ \A i \in 1..Len(persons) : persons[i].name = JStr("")
    /\ Len(persons) = 2
    /\ untouched # {}

\* C12: health_check leaves the table unchanged; when its read succeeds it
\* answers 200 with status healthy and the database connected, and when
\* the read fails it answers 503 with the unhealthy status, the database
\* disconnected and the failure's message.
C12_HealthCheck ==
    [][request'.op = "health_check" =>
          /\ persons' = persons
          /\ response'.status \in {200, 503}
          /\ (response'.health.error = ""
                => (/\ response'.status = 200
                    /\ response'.health.status = "healthy"
                    /\ response'.health.database = "connected"))
          /\ (response'.health.error # ""
                => (/\ response'.status = 503
                    /\ response'.health.status = "unhealthy"
                    /\ response'.health.database = "disconnected"
                    /\ response'.health.error \in SelectOneOutcomes))]_vars

\* C12 witness: a health check whose read failed, answered 503, with a
\* record in the table.
C12_Witness ==
    /\ request.op = "health_check"
    /\ response.status = 503
    /\ response.health.error = "connection refused"
    /\ Len(persons) > 0

\* One client's finished request.
Done(c, op, person_id) ==
    /\ sessions[c].pc = "done"
    /\ sessions[c].op = op
    /\ sessions[c].person_id = person_id

\* C13 as stated: when two delete_person requests for the same stored id
\* overlap, one answers 204 and the other 404; they never both answer 204.
C13_OneDeleteSucceeds ==
    \A a \in Clients, b \in Clients, i \in 1..Len(TwoPersons) :
        LET person_id == TwoPersons[i].id.s
        IN (a # b /\ Done(a, "delete_person", person_id)
                  /\ Done(b, "delete_person", person_id))
           => {sessions[a].response, sessions[b].response} = {NoContent, NotFound}

\* C14 as stated: when an update_person and a delete_person of the same
\* stored id overlap, neither ends in a server error: the delete answers 204,
\* the update answers 200 with the updated entity or 404, and the table ends
\* as after either serial order, without that row and with the others as
\* they were.
C14_UpdateDeleteNoServerError ==
    \A u \in Clients, d \in Clients, i \in 1..Len(TwoPersons) :
        LET person_id == TwoPersons[i].id.s
            updated == SetAttrs(TwoPersons[i], PersonUpdate(sessions[u].body),
                                FieldsSet(sessions[u].body))
        IN (u # d /\ Done(u, "update_person", person_id)
                  /\ Done(d, "delete_person", person_id))
           => /\ sessions[d].response = NoContent
              /\ sessions[u].response \in {Ok(updated), NotFound}
              /\ persons = SelectSeq(TwoPersons, LAMBDA r : r.id # TwoPersons[i].id)

\* C15: a successful update_person or delete_person of X leaves every row
\* with another id as it was and adds none; the update keeps one row with id
\* X and returns that id, the delete leaves no row with id X.  get_person,
\* get_all_persons and every request answered 404 leave the table unchanged.
\* So the list after three creates and a delete of the second person alone is
\* the first and the third person.
C15_OnlyAddressedRecord ==
    [][/\ (request'.op \in {"update_person", "delete_person"}
              /\ response'.status \in {200, 204}) =>
          /\ \A i \in 1..Len(persons) :
                persons[i].id # JStr(request'.person_id)
                   => RowsOf(persons', persons[i].id.s) = <<persons[i]>>
          /\ \A j \in 1..Len(persons') : persons'[j].id.s \in StoredIds
          /\ (request'.op = "update_person" =>
                /\ Len(RowsOf(persons', request'.person_id)) = 1
                /\ Len(persons') = Len(persons)
                /\ response'.entity.id = JStr(request'.person_id))
          /\ (request'.op = "delete_person" =>
                /\ RowsOf(persons', request'.person_id) = <<>>
                /\ Len(persons') = Len(persons) - 1)
       /\ (request'.op \in {"get_person", "get_all_persons"} \/ response' = NotFound)
             => persons' = persons
       /\ (/\ request'.op = "get_all_persons"
           /\ deleted' = {ThreePersons[2].id.s}
           /\ untouched' = {ThreePersons[1], ThreePersons[3]})
             => response' = OkList(<<ThreePersons[1], ThreePersons[3]>>)]_vars

\* C15 witness: after the delete of the second of three persons, and no other
\* change, the list returns the first and the third person as created.
C15_Witness ==
    /\ request.op = "get_all_persons"
    /\ deleted = {ThreePersons[2].id.s}
    /\ untouched = {ThreePersons[1], ThreePersons[3]}
    /\ response = OkList(<<ThreePersons[1], ThreePersons[3]>>)
    /\ persons = <<ThreePersons[1], ThreePersons[3]>>

====
